---- MODULE Spec2Model ----
(***************************************************************************)
(* Alarm store, alarm evaluation and background monitoring of              *)
(* src/alarm_manager.py, with the callers in src/console_features.py and   *)
(* the sampling function of src/core_features.py.                          *)
(*                                                                         *)
(* Python values that can be absent are sequences of length 0 (None) or 1. *)
(* Dynamically typed call arguments are records [t, i, s]: t is the type   *)
(* ("int", "str" or "none"), i the integer and s the string it carries.    *)
(***************************************************************************)
EXTENDS Integers, Sequences, FiniteSets, TLC

(***************************************************************************)
(* Bounds of the model.                                                    *)
(***************************************************************************)
\* number of ids add_alarm may hand out in one behaviour
MaxAlarms == 2
\* number of AlarmMonitorThread objects that may exist at once
MaxThreads == 2

(***************************************************************************)
(* Program constants.                                                      *)
(***************************************************************************)
\* mutant: the log count is evaluated first instead of last
AVAILABLE_RESOURCES_LogsFirst == <<"logs", "cpu", "ram", "disk">>

AVAILABLE_RESOURCES == <<"cpu", "ram", "disk", "logs">>

valid_periods == {"day", "night", "office", "non-office", "always"}

\* upper end of the percent range accepted by add_alarm
MaxPercent == 100

\* sort_order.get(resource, 99) of get_alarms
sort_order(resource) ==
    CASE resource = "cpu" -> 1
      [] resource = "ram" -> 2
      [] resource = "disk" -> 3
      [] OTHER -> 99

ResourceNames == {AVAILABLE_RESOURCES[k] : k \in 1..Len(AVAILABLE_RESOURCES)}

(***************************************************************************)
(* Python values of the call arguments.                                    *)
(***************************************************************************)
PyInt(n) == [t |-> "int", i |-> n, s |-> ""]
PyStr(x) == [t |-> "str", i |-> 0, s |-> x]
PyNone == [t |-> "none", i |-> 0, s |-> ""]

\* truthiness of a value, as `name if name else ...` tests it
Truthy(v) ==
    CASE v.t = "int" -> v.i # 0
      [] v.t = "str" -> v.s # ""
      [] OTHER -> FALSE

\* `v in AVAILABLE_RESOURCES`
IsResourceName(v) == v.t = "str" /\ v.s \in ResourceNames

\* resource.upper()
Upper(resource) ==
    CASE resource = "cpu" -> "CPU"
      [] resource = "ram" -> "RAM"
      [] resource = "disk" -> "DISK"
      [] resource = "logs" -> "LOGS"
      [] OTHER -> resource

\* the name add_alarm derives when none is given
DefaultName(resource, threshold) ==
    IF resource # "logs"
    THEN Upper(resource) \o " alarm " \o ToString(threshold) \o "%"
    ELSE "LOGS alarm " \o ToString(threshold)

\* the stored name of a rule: str(name) for the values the model passes
NameText(v) == IF v.t = "int" THEN ToString(v.i) ELSE v.s

(***************************************************************************)
(* ActivePeriodPolicy.                                                     *)
(***************************************************************************)
\* a rule dict without the key 'active_period': the records of the model
\* carry every field, this value stands for the absent one
NoKey == "(no key)"

\* mutant: night begins at 21:00
is_alarm_active_NightFrom21(alarm, hour) ==
    LET period == IF alarm.active_period = NoKey THEN "always"
                  ELSE alarm.active_period
    IN
    CASE period = "always" -> TRUE
      [] period = "day" -> 6 <= hour /\ hour <= 21
      [] period = "night" -> hour < 6 \/ hour >= 21
      [] period = "office" -> 9 <= hour /\ hour <= 17
      [] period = "non-office" -> ~(9 <= hour /\ hour <= 17)
      [] OTHER -> TRUE

\* _is_alarm_active with the hour the clock gives; a rule without the key is
\* read as 'always' (line 204), an unknown period is active (line 219)
is_alarm_active(alarm, hour) ==
    LET period == IF alarm.active_period = NoKey THEN "always"
                  ELSE alarm.active_period
    IN
    CASE period = "always" -> TRUE
      [] period = "day" -> 6 <= hour /\ hour <= 21
      [] period = "night" -> hour < 6 \/ hour > 21
      [] period = "office" -> 9 <= hour /\ hour <= 17
      [] period = "non-office" -> ~(9 <= hour /\ hour <= 17)
      [] OTHER -> TRUE

(***************************************************************************)
(* Sequence helpers.                                                       *)
(***************************************************************************)
\* the sort key of get_alarms, compared as Python compares tuples
KeyLE(a, b) ==
    \/ sort_order(a.resource) < sort_order(b.resource)
    \/ /\ sort_order(a.resource) = sort_order(b.resource)
       /\ a.threshold <= b.threshold

RECURSIVE InsertSorted(_, _)
\* x placed after every element whose key is not greater (stable)
InsertSorted(x, sorted) ==
    IF sorted = <<>> THEN <<x>>
    ELSE IF KeyLE(Head(sorted), x)
         THEN <<Head(sorted)>> \o InsertSorted(x, Tail(sorted))
         ELSE <<x>> \o sorted

RECURSIVE SortedAlarms(_)
\* sorted(self.alarms, key=...): a stable sort
SortedAlarms(seq) ==
    IF seq = <<>> THEN <<>>
    ELSE InsertSorted(seq[Len(seq)], SortedAlarms(SubSeq(seq, 1, Len(seq) - 1)))

RECURSIVE MaxByThreshold(_)
\* max(seq, key=lambda x: x['threshold']): the first element of maximum key
MaxByThreshold(seq) ==
    IF Len(seq) = 1 THEN seq[1]
    ELSE LET rest == MaxByThreshold(Tail(seq)) IN
         IF Head(seq).threshold >= rest.threshold THEN Head(seq) ELSE rest

(***************************************************************************)
(* Inputs of the environment, drawn from small sets.                       *)
(***************************************************************************)
\* values datetime.now().hour takes when a tick reads the clock
SampleHours == {10, 22}

\* usage snapshots a tick can sample (percent per resource, log count)
Usage(cpu, ram, disk, logs) ==
    [cpu |-> cpu, ram |-> ram, disk |-> disk, logs |-> logs]

Snapshots ==
    { Usage(0, 0, 0, 0), Usage(90, 0, 0, 0), Usage(80, 0, 0, 90),
      Usage(85, 90, 0, 0), Usage(0, 0, 90, 90), Usage(90, 90, 90, 90) }

\* outcomes of the write in save_alarms
SaveOutcomes == {"ok", "open_fails", "write_fails"}

(***************************************************************************)
(* The persisted store: alarms.json.                                       *)
(***************************************************************************)
\* JSON values: what json.dump writes for a str and for an int
JsonString(x) == [j |-> "string", n |-> 0, s |-> x]
JsonNumber(n) == [j |-> "number", n |-> n, s |-> ""]

\* the id of a rule is a str; the model names the ids by numbers
JsonId(id) == [j |-> "string", n |-> id, s |-> ""]

\* json.dump(alarms, f, indent=4): one object per rule, the keys in the
\* order of the dict
json_dump(rules) ==
    [k \in 1..Len(rules) |->
        [id |-> JsonId(rules[k].id),
         name |-> JsonString(rules[k].name),
         resource |-> JsonString(rules[k].resource),
         threshold |-> JsonNumber(rules[k].threshold),
         active_period |-> JsonString(rules[k].active_period)]]

\* mutant: the names are not read back
json_load_NoNames(objects) ==
    [k \in 1..Len(objects) |->
        [id |-> objects[k].id.n,
         name |-> "",
         resource |-> objects[k].resource.s,
         threshold |-> objects[k].threshold.n,
         active_period |-> objects[k].active_period.s]]

\* json.load(f) of a list of rule objects
json_load(objects) ==
    [k \in 1..Len(objects) |->
        [id |-> objects[k].id.n,
         name |-> objects[k].name.s,
         resource |-> objects[k].resource.s,
         threshold |-> objects[k].threshold.n,
         active_period |-> objects[k].active_period.s]]

\* the contents alarms.json can have: no file, text that is no JSON, a JSON
\* object, a JSON number or null, a JSON list of rule objects
FileMissing == [state |-> "missing", rules |-> <<>>]
FileCorrupt == [state |-> "corrupt", rules |-> <<>>]
FileObject == [state |-> "object", rules |-> <<>>]
FileScalar == [state |-> "scalar", rules |-> <<>>]
FileList(rules) == [state |-> "list", rules |-> json_dump(rules)]

\* outcomes of the open calls of load_alarms
LoadOutcomes == {"ok", "open_fails"}

\* the exception the try block of load_alarms raises, "" when none: open
\* fails (lines 32, 37), json.load fails (line 38), len() of a value that
\* has none (line 39), the isinstance test (lines 41-42)
load_raises(f, outcome) ==
    CASE outcome = "open_fails" -> "OSError"
      [] f.state = "corrupt" -> "JSONDecodeError"
      [] f.state = "scalar" -> "TypeError"
      [] f.state = "object" -> "ValueError"
      [] OTHER -> ""

\* mutant: only the handler of line 45 is there
load_handles_DecodeOnly(exc) == exc \in {"JSONDecodeError", "ValueError"}

\* lines 45 and 48: the handlers catch JSONDecodeError, ValueError and every
\* other Exception
load_handles(exc) ==
    \/ exc \in {"JSONDecodeError", "ValueError"}
    \/ exc \in {"OSError", "TypeError"}

\* load_alarms: the list it returns, the file it leaves behind, the
\* exception it handled and whether one reached the caller
load_alarms(f, outcome) ==
    LET exc == load_raises(f, outcome) IN
    [alarms |-> IF exc = "" /\ f.state = "list" THEN json_load(f.rules) ELSE <<>>,
     file |-> IF exc = "" /\ f.state = "missing" THEN FileList(<<>>) ELSE f,
     handled |-> exc,
     raised |-> exc # "" /\ ~load_handles(exc)]

\* save_alarms: the file after the call; no failure propagates
save_alarms(rules, f, outcome) ==
    CASE outcome = "ok" -> FileList(rules)
      [] outcome = "open_fails" -> f
      [] OTHER -> FileCorrupt

(***************************************************************************)
(* State.                                                                  *)
(***************************************************************************)
VARIABLES
    alarms,             \* AlarmManager.alarms
    file,               \* content of ALARMS_FILE
    triggered_alarm,    \* AlarmManager.triggered_alarm: <<>> or <<record>>
    monitoring_active,  \* AlarmManager.monitoring_active
    monitor_thread,     \* AlarmManager._monitor_thread: 0 (None) or a thread id
    threads,            \* the AlarmMonitorThread objects
    caller,             \* where the consumer thread is inside a call
    ret,                \* the consumer's last call and its outcome
    next_id,            \* number of ids uuid4 has produced
    disturbed,          \* history: the running tick was interfered with
    pulse_stop_event,   \* the stop event of AlarmManager._pulse_thread
    add_args,           \* the arguments the consumer has entered for add_alarm
    listing,            \* the list get_alarms returned to the consumer
    pulse_active,       \* AlarmManager.pulse_active
    pulse_pc,           \* where the PulseThread is in run()
    starter             \* where a second caller is inside start_monitoring

vars == <<alarms, file, triggered_alarm, monitoring_active, monitor_thread,
          threads, caller, ret, next_id, disturbed, pulse_stop_event, add_args,
          listing, pulse_active, pulse_pc, starter>>

ThreadIds == 1..MaxThreads

NoUsage == Usage(0, 0, 0, 0)

NoWinners == [k \in 1..Len(AVAILABLE_RESOURCES) |-> 0]

\* a thread object that was never started, and the locals of run() outside a tick
FreshThread ==
    [pc |-> "unborn", stop_event |-> FALSE, usage |-> NoUsage, failed |-> FALSE,
     hour |-> 0, idx |-> 0, alarm |-> <<>>, winners |-> NoWinners,
     before |-> <<>>, raised |-> FALSE, alert_any |-> FALSE, mail |-> "",
     held |-> {}]

is_alive(t) == threads[t].pc \notin {"unborn", "dead"}

InTick(t) ==
    threads[t].pc \in {"eval", "publish", "set_value", "set_time", "notify", "sleep"}

NoCall == [op |-> "none", status |-> "", id |-> 0, wrote |-> FALSE,
           cleared |-> FALSE, saved |-> FALSE]

\* one set of arguments of add_alarm
Args(resource, threshold, name, active_period) ==
    [resource |-> resource, threshold |-> threshold, name |-> name,
     active_period |-> active_period]

NoArgs == Args(PyNone, PyNone, PyNone, "")

\* a rule as alarms.json holds it
Rule(id, resource, threshold, active_period) ==
    [id |-> id, name |-> DefaultName(resource, threshold), resource |-> resource,
     threshold |-> threshold, active_period |-> active_period]

\* the files the program can find at construction
InitFiles ==
    { FileMissing,
      FileList(<<>>),
      FileList(<<Rule(101, "cpu", 70, "always"), Rule(102, "cpu", 85, "always")>>),
      FileList(<<Rule(101, "cpu", 85, "office"), Rule(102, "cpu", 70, "always")>>),
      FileList(<<Rule(101, "cpu", 70, "office"), Rule(102, "logs", 70, "always")>>),
      FileList(<<Rule(101, "ram", 85, "always"), Rule(102, "disk", 85, "night"),
                 Rule(103, "logs", 85, "non-office")>>),
      FileList(<<Rule(101, "cpu", 85, "day"), Rule(102, "cpu", 70, "always"),
                 Rule(103, "cpu", 85, "always")>>) }

\* AlarmManager.__init__ on one of the files; the consumer has its arguments
InitFrom(files, arguments) ==
    /\ \E f \in files :
          /\ alarms = load_alarms(f, "ok").alarms
          /\ file = load_alarms(f, "ok").file
    /\ add_args \in arguments
    /\ triggered_alarm = <<>>
    /\ monitoring_active = FALSE
    /\ monitor_thread = 0
    /\ threads = [t \in ThreadIds |-> FreshThread]
    /\ caller = "idle"
    /\ ret = NoCall
    /\ next_id = 0
    /\ disturbed = FALSE
    /\ pulse_stop_event = FALSE
    /\ listing = <<>>
    /\ pulse_active = FALSE
    /\ pulse_pc = "loop"
    /\ starter = "idle"

Init == InitFrom(InitFiles, {NoArgs})

(***************************************************************************)
(* AlarmManager: reads.                                                    *)
(***************************************************************************)
\* get_alarms: a sorted copy of the rule list, taken under the lock
get_alarms == SortedAlarms(alarms)

\* line 251: the list sorted() builds holds the dicts of self.alarms
\* themselves, named here by their positions in self.alarms
sorted_alarms ==
    LET tagged == [k \in 1..Len(alarms) |->
                      [at |-> k, resource |-> alarms[k].resource,
                       threshold |-> alarms[k].threshold]]
        ordered == SortedAlarms(tagged)
    IN  [k \in 1..Len(ordered) |-> ordered[k].at]

\* the lock of the store is held by a call that is inside its critical section
LockFree == caller # "rm_clear"

(***************************************************************************)
(* AlarmMonitorThread.run.                                                 *)
(***************************************************************************)
\* get_system_usage: the snapshot, or zero values when the sampling fails
get_system_usage(s, failed) == IF failed THEN Usage(0, 0, 0, 0) ELSE s

\* the value a resource is compared with: the log count for logs
current_value_of(usage, resource) ==
    CASE resource = "cpu" -> usage.cpu
      [] resource = "ram" -> usage.ram
      [] resource = "disk" -> usage.disk
      [] OTHER -> usage.logs

\* mutant: the maximum is taken before the inactive rules are filtered out
highest_threshold_alarm_MaxFirst(alarm_list, resource, current_value, hour) ==
    LET resource_alarms ==
            SelectSeq(alarm_list,
                      LAMBDA a : a.resource = resource /\ a.threshold <= current_value)
    IN  IF resource_alarms = <<>> THEN <<>>
        ELSE IF is_alarm_active(MaxByThreshold(resource_alarms), hour)
             THEN <<MaxByThreshold(resource_alarms)>>
             ELSE <<>>

\* the rule run() hands to _trigger_alarm for one resource: <<>> when none
highest_threshold_alarm(alarm_list, resource, current_value, hour) ==
    LET resource_alarms ==
            SelectSeq(alarm_list,
                      LAMBDA a : a.resource = resource /\ a.threshold <= current_value)
        active_alarms ==
            SelectSeq(resource_alarms, LAMBDA a : is_alarm_active(a, hour))
    IN  IF resource_alarms = <<>> \/ active_alarms = <<>>
        THEN <<>>
        ELSE <<MaxByThreshold(active_alarms)>>

\* the locals of a thread once the for loop moves past resource idx
NextResource(th) ==
    IF th.idx = Len(AVAILABLE_RESOURCES)
    THEN [th EXCEPT !.pc = "sleep", !.alarm = <<>>]
    ELSE [th EXCEPT !.pc = "eval", !.idx = th.idx + 1, !.alarm = <<>>]

\* alarm.copy(): the rule without current_value and triggered_at
AlarmCopy(alarm) ==
    [id |-> alarm.id, name |-> alarm.name, resource |-> alarm.resource,
     threshold |-> alarm.threshold, active_period |-> alarm.active_period,
     current_value |-> <<>>, triggered_at |-> <<>>]

\* the while test finds the stop event set: run() returns
ExitLoop(t) ==
    /\ threads[t].pc = "loop"
    /\ threads[t].stop_event
    /\ threads' = [threads EXCEPT ![t] = [FreshThread EXCEPT !.pc = "dead",
                                                              !.stop_event = TRUE]]
    /\ UNCHANGED <<alarms, file, triggered_alarm, monitoring_active,
                   monitor_thread, caller, ret, next_id, disturbed, pulse_stop_event,
                   add_args,
                   listing, pulse_active, pulse_pc, starter>>

\* lines 83-88: a tick starts, samples the usage and counts the log entries
BeginTick(t, snapshots, hours) ==
    /\ threads[t].pc = "loop"
    /\ ~threads[t].stop_event
    /\ \E s \in snapshots, failed \in BOOLEAN, h \in hours :
          threads' = [threads EXCEPT ![t] =
              [@ EXCEPT !.pc = "eval",
                        !.usage = [get_system_usage(s, failed) EXCEPT !.logs = s.logs],
                        !.failed = failed,
                        !.hour = h,
                        !.idx = 1,
                        !.alarm = <<>>,
                        !.winners = NoWinners,
                        !.before = triggered_alarm,
                        !.raised = FALSE,
                        !.held = {alarms}]]
    /\ disturbed' = FALSE
    /\ UNCHANGED <<alarms, file, triggered_alarm, monitoring_active,
                   monitor_thread, caller, ret, next_id, pulse_stop_event,
                   add_args,
                   listing, pulse_active, pulse_pc, starter>>

\* the locals of the last _trigger_alarm call are gone once the loop goes on
Returned(th) == [th EXCEPT !.alert_any = FALSE, !.mail = ""]

\* mutant: after an acknowledgement no rule is picked
EvalResource_AckDurable(t) ==
    LET th == threads[t]
        resource == AVAILABLE_RESOURCES[th.idx]
        current_value == current_value_of(th.usage, resource)
        chosen == IF ret.op = "ack" THEN <<>>
                  ELSE highest_threshold_alarm(get_alarms, resource,
                                               current_value, th.hour)
    IN  /\ th.pc = "eval"
        /\ LockFree
        /\ threads' = [threads EXCEPT ![t] =
              IF chosen = <<>>
              THEN NextResource(Returned(th))
              ELSE [Returned(th) EXCEPT !.pc = "publish", !.alarm = chosen,
                                        !.winners[th.idx] = chosen[1].id]]
        /\ UNCHANGED <<alarms, file, triggered_alarm, monitoring_active,
                       monitor_thread, caller, ret, next_id, disturbed, pulse_stop_event,
                       add_args,
                       listing, pulse_active, pulse_pc, starter>>

\* lines 91-110: one resource of the for loop is evaluated
EvalResource(t) ==
    LET th == threads[t]
        resource == AVAILABLE_RESOURCES[th.idx]
        current_value == current_value_of(th.usage, resource)
        chosen == highest_threshold_alarm(get_alarms, resource, current_value, th.hour)
    IN  /\ th.pc = "eval"
        /\ LockFree
        /\ threads' = [threads EXCEPT ![t] =
              IF chosen = <<>>
              THEN NextResource(Returned(th))
              ELSE [Returned(th) EXCEPT !.pc = "publish", !.alarm = chosen,
                                        !.winners[th.idx] = chosen[1].id]]
        /\ UNCHANGED <<alarms, file, triggered_alarm, monitoring_active,
                       monitor_thread, caller, ret, next_id, disturbed, pulse_stop_event,
                       add_args,
                       listing, pulse_active, pulse_pc, starter>>

\* _trigger_alarm, line 339: the copy of the rule becomes the triggered alarm
Publish(t) ==
    /\ threads[t].pc = "publish"
    /\ triggered_alarm' = <<AlarmCopy(threads[t].alarm[1])>>
    /\ threads' = [threads EXCEPT ![t].pc = "set_value"]
    /\ UNCHANGED <<alarms, file, monitoring_active, monitor_thread, caller,
                   ret, next_id, disturbed, pulse_stop_event, add_args,
                   listing, pulse_active, pulse_pc, starter>>

\* mutant: the TypeError of line 340 is not caught and ends run()
SetValue_Uncaught(t) ==
    LET th == threads[t]
        current_value == current_value_of(th.usage, AVAILABLE_RESOURCES[th.idx])
    IN  /\ th.pc = "set_value"
        /\ IF triggered_alarm = <<>>
           THEN /\ threads' = [threads EXCEPT ![t] =
                       [FreshThread EXCEPT !.pc = "dead",
                                           !.stop_event = th.stop_event]]
                /\ UNCHANGED triggered_alarm
           ELSE /\ triggered_alarm' =
                       <<[triggered_alarm[1] EXCEPT !.current_value = <<current_value>>]>>
                /\ threads' = [threads EXCEPT ![t].pc = "set_time"]
        /\ UNCHANGED <<alarms, file, monitoring_active, monitor_thread, caller,
                       ret, next_id, disturbed, pulse_stop_event, add_args,
                       listing, pulse_active, pulse_pc, starter>>

\* _trigger_alarm, line 340: current_value is stored into the shared record;
\* on None the TypeError reaches the except of run(), which ends the tick
SetValue(t) ==
    LET th == threads[t]
        current_value == current_value_of(th.usage, AVAILABLE_RESOURCES[th.idx])
    IN  /\ th.pc = "set_value"
        /\ IF triggered_alarm = <<>>
           THEN /\ threads' = [threads EXCEPT ![t] =
                       [th EXCEPT !.pc = "sleep", !.alarm = <<>>, !.raised = TRUE]]
                /\ UNCHANGED triggered_alarm
           ELSE /\ triggered_alarm' =
                       <<[triggered_alarm[1] EXCEPT !.current_value = <<current_value>>]>>
                /\ threads' = [threads EXCEPT ![t].pc = "set_time"]
        /\ UNCHANGED <<alarms, file, monitoring_active, monitor_thread, caller,
                       ret, next_id, disturbed, pulse_stop_event, add_args,
                       listing, pulse_active, pulse_pc, starter>>

\* _trigger_alarm, lines 341-345: triggered_at is stored; a failure is swallowed
SetTime(t) ==
    LET th == threads[t] IN
    /\ th.pc = "set_time"
    /\ triggered_alarm' =
          IF triggered_alarm = <<>>
          THEN <<>>
          ELSE <<[triggered_alarm[1] EXCEPT !.triggered_at = <<th.hour>>]>>
    /\ threads' = [threads EXCEPT ![t].pc = "notify"]
    /\ UNCHANGED <<alarms, file, monitoring_active, monitor_thread, caller,
                   ret, next_id, disturbed, pulse_stop_event, add_args,
                   listing, pulse_active, pulse_pc, starter>>

\* what a call of send_alert_email can do: deliver, return False (nothing
\* configured, or the SMTP error it catches itself), or raise (the int() of
\* the port is outside every try)
MailOutcomes == {"sent", "failed", "raised"}

\* line 348: the test that decides whether a notification is due
MustNotify(resource, alert_any) ==
    IF resource = "LOGS" THEN TRUE ELSE alert_any

\* _trigger_alarm, lines 346-354: the optional notification. The body is built
\* from self.triggered_alarm, so on None the AttributeError reaches the except
\* of line 353 before send_alert_email is called; mail records what happened:
\* "skipped" (not due), "unbuilt" (the body could not be built), or the
\* outcome of the call
Notify(t) ==
    LET th == threads[t]
        resource == Upper(th.alarm[1].resource)
    IN  /\ th.pc = "notify"
        /\ \E alert_any \in BOOLEAN, outcome \in MailOutcomes :
              threads' = [threads EXCEPT ![t] =
                  [NextResource(th) EXCEPT
                      !.alert_any = alert_any,
                      !.mail = IF ~MustNotify(resource, alert_any) THEN "skipped"
                               ELSE IF triggered_alarm = <<>> THEN "unbuilt"
                               ELSE outcome]]
        /\ UNCHANGED <<alarms, file, triggered_alarm, monitoring_active,
                       monitor_thread, caller, ret, next_id, disturbed,
                       pulse_stop_event, add_args,
                       listing, pulse_active, pulse_pc, starter>>

\* line 123: the wait between two ticks; the locals of the tick are dropped
Sleep(t) ==
    /\ threads[t].pc = "sleep"
    /\ threads' = [threads EXCEPT ![t] =
          [FreshThread EXCEPT !.pc = "loop", !.stop_event = threads[t].stop_event]]
    /\ UNCHANGED <<alarms, file, triggered_alarm, monitoring_active,
                   monitor_thread, caller, ret, next_id, disturbed, pulse_stop_event,
                   add_args,
                   listing, pulse_active, pulse_pc, starter>>

(***************************************************************************)
(* PulseThread.run.                                                        *)
(***************************************************************************)
\* the while test finds the stop event set: run() returns
PulseExit ==
    /\ pulse_pc = "loop"
    /\ pulse_stop_event
    /\ pulse_pc' = "dead"
    /\ UNCHANGED pulse_active
    /\ UNCHANGED <<alarms, file, triggered_alarm, monitoring_active,
                   monitor_thread, threads, caller, ret, next_id, disturbed,
                   pulse_stop_event, add_args, listing, starter>>

\* lines 147-151: the flag is raised and the thread sleeps
PulseOn ==
    /\ pulse_pc = "loop"
    /\ ~pulse_stop_event
    /\ pulse_active' = TRUE
    /\ pulse_pc' = "active"
    /\ UNCHANGED <<alarms, file, triggered_alarm, monitoring_active,
                   monitor_thread, threads, caller, ret, next_id, disturbed,
                   pulse_stop_event, add_args, listing, starter>>

\* mutant: the flag is left as it is after the sleep
PulseOff_Keeps ==
    /\ pulse_pc = "active"
    /\ pulse_pc' = "wait"
    /\ UNCHANGED pulse_active
    /\ UNCHANGED <<alarms, file, triggered_alarm, monitoring_active,
                   monitor_thread, threads, caller, ret, next_id, disturbed,
                   pulse_stop_event, add_args, listing, starter>>

\* line 152: the flag is lowered after the sleep
PulseOff ==
    /\ pulse_pc = "active"
    /\ pulse_active' = FALSE
    /\ pulse_pc' = "wait"
    /\ UNCHANGED <<alarms, file, triggered_alarm, monitoring_active,
                   monitor_thread, threads, caller, ret, next_id, disturbed,
                   pulse_stop_event, add_args, listing, starter>>

\* line 155: the wait for the rest of the period ends, in time or by the stop
\* event
PulseWait ==
    /\ pulse_pc = "wait"
    /\ pulse_pc' = "loop"
    /\ UNCHANGED pulse_active
    /\ UNCHANGED <<alarms, file, triggered_alarm, monitoring_active,
                   monitor_thread, threads, caller, ret, next_id, disturbed,
                   pulse_stop_event, add_args, listing, starter>>

\* line 156: a statement of the cycle raises while the flag is up
PulseError ==
    /\ pulse_pc = "active"
    /\ pulse_pc' = "except"
    /\ UNCHANGED pulse_active
    /\ UNCHANGED <<alarms, file, triggered_alarm, monitoring_active,
                   monitor_thread, threads, caller, ret, next_id, disturbed,
                   pulse_stop_event, add_args, listing, starter>>

\* lines 158-160: the handler lowers the flag
PulseClear ==
    /\ pulse_pc = "except"
    /\ pulse_active' = FALSE
    /\ pulse_pc' = "recover"
    /\ UNCHANGED <<alarms, file, triggered_alarm, monitoring_active,
                   monitor_thread, threads, caller, ret, next_id, disturbed,
                   pulse_stop_event, add_args, listing, starter>>

\* line 162: the handler sleeps and the loop goes on
PulseRecover ==
    /\ pulse_pc = "recover"
    /\ pulse_pc' = "loop"
    /\ UNCHANGED pulse_active
    /\ UNCHANGED <<alarms, file, triggered_alarm, monitoring_active,
                   monitor_thread, threads, caller, ret, next_id, disturbed,
                   pulse_stop_event, add_args, listing, starter>>

PulseStep ==
    \/ PulseExit
    \/ PulseOn
    \/ PulseOff
    \/ PulseWait
    \/ PulseError
    \/ PulseClear
    \/ PulseRecover

(***************************************************************************)
(* AlarmManager: the administrative calls of the consumer thread.          *)
(***************************************************************************)
\* arguments the consumer passes to add_alarm
ResourceArgs ==
    {PyStr("cpu"), PyStr("ram"), PyStr("disk"), PyStr("logs"), PyStr("gpu")}

ThresholdArgs ==
    {PyInt(-1), PyInt(0), PyInt(1), PyInt(70), PyInt(100), PyInt(101),
     PyStr("cpu"), PyNone}

NameArgs == {PyNone, PyStr(""), PyStr("n"), PyInt(70), PyInt(0)}

PeriodArgs == valid_periods \cup {"weekend"}

\* lines 260-262: the arguments after the backwards-compatibility shift
shifted(resource, threshold, name) ==
    IF ~IsResourceName(resource) /\ threshold.t = "str" /\ IsResourceName(threshold)
    THEN [name |-> resource, resource |-> threshold, threshold |-> name]
    ELSE [name |-> name, resource |-> resource, threshold |-> threshold]

\* mutant: the upper end of the percent range is excluded
validate_Exclusive(resource, threshold, active_period) ==
    IF ~IsResourceName(resource) THEN "ValueError"
    ELSE IF threshold.t # "int" THEN "TypeError"
    ELSE IF resource.s = "logs" /\ threshold.i <= 0 THEN "ValueError"
    ELSE IF resource.s # "logs" /\ ~(1 <= threshold.i /\ threshold.i < MaxPercent)
         THEN "ValueError"
    ELSE IF active_period \notin valid_periods THEN "ValueError"
    ELSE "ok"

\* mutant: the active period is not validated
validate_AnyPeriod(resource, threshold, active_period) ==
    IF ~IsResourceName(resource) THEN "ValueError"
    ELSE IF threshold.t # "int" THEN "TypeError"
    ELSE IF resource.s = "logs" /\ threshold.i <= 0 THEN "ValueError"
    ELSE IF resource.s # "logs" /\ ~(1 <= threshold.i /\ threshold.i <= MaxPercent)
         THEN "ValueError"
    ELSE "ok"

\* lines 264-281: "ok", or the exception the validation raises
validate(resource, threshold, active_period) ==
    IF ~IsResourceName(resource) THEN "ValueError"
    ELSE IF threshold.t # "int" THEN "TypeError"
    ELSE IF resource.s = "logs" /\ threshold.i <= 0 THEN "ValueError"
    ELSE IF resource.s # "logs" /\ ~(1 <= threshold.i /\ threshold.i <= MaxPercent)
         THEN "ValueError"
    ELSE IF active_period \notin valid_periods THEN "ValueError"
    ELSE "ok"

\* str(uuid.uuid4()): an id no earlier call produced
uuid4 == next_id + 1

\* lines 283-289
new_alarm(resource, threshold, name, active_period) ==
    [id |-> uuid4,
     name |-> IF Truthy(name) THEN NameText(name)
              ELSE DefaultName(resource.s, threshold.i),
     resource |-> resource.s,
     threshold |-> threshold.i,
     active_period |-> active_period]

\* the outcome of one call: what it returned or raised ("" while it has not
\* returned), the id it is about, whether it called save_alarms, whether it
\* cleared the triggered alarm and whether its save_alarms wrote the list
Call(op, status, id, wrote) ==
    [op |-> op, status |-> status, id |-> id, wrote |-> wrote, cleared |-> FALSE,
     saved |-> FALSE]

\* history: every tick under way notes the rule list the store now holds
Holding(rules) ==
    [t \in ThreadIds |->
        IF InTick(t) THEN [threads[t] EXCEPT !.held = @ \cup {rules}]
        ELSE threads[t]]

\* a call of the consumer interferes with a tick that is under way
Interferes == \E t \in ThreadIds : InTick(t)

add_alarm(resource, threshold, name, active_period, outcome) ==
    LET a == shifted(resource, threshold, name)
        status == validate(a.resource, a.threshold, active_period)
        rule == new_alarm(a.resource, a.threshold, a.name, active_period)
    IN  /\ caller = "idle"
        /\ IF status = "ok"
           THEN /\ next_id < MaxAlarms
                /\ alarms' = Append(alarms, rule)
                /\ file' = save_alarms(alarms', file, outcome)
                /\ next_id' = uuid4
                /\ ret' = [Call("add", status, rule.id, TRUE)
                              EXCEPT !.saved = (outcome = "ok")]
                /\ disturbed' = (disturbed \/ Interferes)
                /\ threads' = Holding(Append(alarms, rule))
           ELSE /\ outcome = "ok"
                /\ ret' = Call("add", status, 0, FALSE)
                /\ UNCHANGED <<alarms, file, next_id, disturbed, threads>>
        /\ UNCHANGED <<triggered_alarm, monitoring_active, monitor_thread,
                       caller, pulse_stop_event, add_args,
                       listing, pulse_active, pulse_pc, starter>>

\* the consumer calls add_alarm with the arguments it has entered
SubmitAdd ==
    \E outcome \in SaveOutcomes :
        add_alarm(add_args.resource, add_args.threshold, add_args.name,
                  add_args.active_period, outcome)

\* the list comprehension of line 303 builds a new list of the dicts it
\* keeps: the consumer's references follow them, 0 for a dict the store dropped
Rebound(alarm_id) ==
    [k \in 1..Len(listing) |->
        IF listing[k] = 0 THEN 0
        ELSE IF alarms[listing[k]].id = alarm_id THEN 0
        ELSE listing[k]
               - Cardinality({q \in 1..listing[k] : alarms[q].id = alarm_id})]

\* mutant: the list is saved whether or not a rule was removed
remove_alarm_SavesAlways(alarm_id, outcome) ==
    LET initial_count == Len(alarms)
        kept == SelectSeq(alarms, LAMBDA a : a.id # alarm_id)
        removed == Len(kept) < initial_count
        hit == triggered_alarm # <<>> /\ triggered_alarm[1].id = alarm_id
    IN  /\ caller = "idle"
        /\ alarms' = kept
        /\ file' = save_alarms(kept, file, outcome)
        /\ caller' = IF removed /\ hit THEN "rm_clear" ELSE "idle"
        /\ disturbed' = (disturbed \/ Interferes)
        /\ ret' = [Call("remove",
                        IF ~removed THEN "False" ELSE IF hit THEN "" ELSE "True",
                        alarm_id, TRUE)
                      EXCEPT !.saved = (outcome = "ok")]
        /\ listing' = Rebound(alarm_id)
        /\ threads' = Holding(kept)
        /\ UNCHANGED <<triggered_alarm, monitoring_active, monitor_thread,
                       next_id, pulse_stop_event, add_args,
                       pulse_active, pulse_pc, starter>>

\* lines 300-311 and 314-315: the rule is filtered out under the lock; the
\* call returns unless the removed rule is the triggered one
remove_alarm(alarm_id, outcome) ==
    LET initial_count == Len(alarms)
        kept == SelectSeq(alarms, LAMBDA a : a.id # alarm_id)
        removed == Len(kept) < initial_count
        hit == triggered_alarm # <<>> /\ triggered_alarm[1].id = alarm_id
    IN  /\ caller = "idle"
        /\ alarms' = kept
        /\ IF removed
           THEN /\ file' = save_alarms(kept, file, outcome)
                /\ caller' = IF hit THEN "rm_clear" ELSE "idle"
                /\ disturbed' = (disturbed \/ Interferes)
           ELSE /\ outcome = "ok"
                /\ UNCHANGED <<file, caller, disturbed>>
        /\ ret' = [Call("remove",
                        IF ~removed THEN "False" ELSE IF hit THEN "" ELSE "True",
                        alarm_id, removed)
                      EXCEPT !.saved = (removed /\ outcome = "ok")]
        /\ listing' = Rebound(alarm_id)
        /\ threads' = Holding(kept)
        /\ UNCHANGED <<triggered_alarm, monitoring_active, monitor_thread,
                       next_id, pulse_stop_event, add_args,
                       pulse_active, pulse_pc, starter>>

RemoveAlarm(ids) ==
    \E alarm_id \in ids, outcome \in SaveOutcomes : remove_alarm(alarm_id, outcome)

\* mutant: the call returns True with the triggered alarm left in place
RemoveClear_Keeps ==
    /\ caller = "rm_clear"
    /\ caller' = "idle"
    /\ ret' = [ret EXCEPT !.status = "True"]
    /\ disturbed' = (disturbed \/ Interferes)
    /\ UNCHANGED <<alarms, file, triggered_alarm, monitoring_active,
                   monitor_thread, threads, next_id, pulse_stop_event, add_args,
                   listing, pulse_active, pulse_pc, starter>>

\* line 312: the triggered alarm is cleared, the lock released, True returned
RemoveClear ==
    /\ caller = "rm_clear"
    /\ triggered_alarm' = <<>>
    /\ caller' = "idle"
    /\ ret' = [ret EXCEPT !.status = "True", !.cleared = TRUE]
    /\ disturbed' = (disturbed \/ Interferes)
    /\ UNCHANGED <<alarms, file, monitoring_active, monitor_thread, threads,
                   next_id, pulse_stop_event, add_args,
                   listing, pulse_active, pulse_pc, starter>>

\* console_features.py line 614: ENTER acknowledges the alarm on display
Acknowledge ==
    /\ caller = "idle"
    /\ triggered_alarm # <<>>
    /\ triggered_alarm' = <<>>
    /\ ret' = Call("ack", "", 0, FALSE)
    /\ disturbed' = (disturbed \/ Interferes)
    /\ UNCHANGED <<alarms, file, monitoring_active, monitor_thread, threads,
                   caller, next_id, pulse_stop_event, add_args,
                   listing, pulse_active, pulse_pc, starter>>

\* start_monitoring_mode, lines 435-451: menu choice 6 marks the monitor
\* active and shows the live display
EnterMode ==
    /\ caller = "idle"
    /\ monitoring_active' = TRUE
    /\ caller' = "mode"
    /\ UNCHANGED <<alarms, file, triggered_alarm, monitor_thread, threads, ret,
                   next_id, disturbed, pulse_stop_event, add_args,
                   listing, pulse_active, pulse_pc, starter>>

\* start_monitoring_mode, lines 451-471: a key ends the display (or the loop
\* finds the flag lowered) and the monitor is marked inactive
LeaveMode ==
    /\ caller = "mode"
    /\ monitoring_active' = FALSE
    /\ caller' = "idle"
    /\ ret' = Call("mode", "", 0, FALSE)
    /\ UNCHANGED <<alarms, file, triggered_alarm, monitor_thread, threads,
                   next_id, disturbed, pulse_stop_event, add_args,
                   listing, pulse_active, pulse_pc, starter>>

\* console_features.py lines 358 and 392: the consumer asks for the list
ListAlarms ==
    /\ caller = "idle"
    /\ LockFree
    /\ listing' = sorted_alarms
    /\ ret' = Call("list", "", 0, FALSE)
    /\ UNCHANGED <<alarms, file, triggered_alarm, monitoring_active,
                   monitor_thread, threads, caller, next_id, disturbed,
                   pulse_stop_event, add_args, pulse_active, pulse_pc, starter>>

\* the consumer mutates the list it was given: del returned[0]
MutateList ==
    /\ caller = "idle"
    /\ listing # <<>>
    /\ listing' = Tail(listing)
    /\ ret' = Call("del", "", 0, FALSE)
    /\ UNCHANGED <<alarms, file, triggered_alarm, monitoring_active,
                   monitor_thread, threads, caller, next_id, disturbed,
                   pulse_stop_event, add_args, pulse_active, pulse_pc, starter>>

\* the consumer mutates a rule of the list it was given:
\* returned[k]['threshold'] = value; the dict is the store's when it is shared
MutateRule(values) ==
    \E k \in 1..Len(listing), value \in values :
        /\ caller = "idle"
        /\ alarms' = IF listing[k] = 0 THEN alarms
                     ELSE [alarms EXCEPT ![listing[k]].threshold = value]
        /\ ret' = Call("set", "", 0, FALSE)
        /\ threads' = Holding(alarms')
        /\ UNCHANGED <<file, triggered_alarm, monitoring_active,
                       monitor_thread, caller, next_id, disturbed,
                       pulse_stop_event, add_args, listing, pulse_active,
                       pulse_pc, starter>>

\* the program is started again: its threads are gone with the old process
\* and AlarmManager.__init__ loads the file into new objects
Restart ==
    \E outcome \in LoadOutcomes :
        LET loaded == load_alarms(file, outcome) IN
        /\ caller = "idle"
        /\ alarms' = loaded.alarms
        /\ file' = loaded.file
        /\ ret' = Call("load", IF loaded.raised THEN "raised" ELSE loaded.handled,
                       0, FALSE)
        /\ triggered_alarm' = <<>>
        /\ monitoring_active' = FALSE
        /\ monitor_thread' = 0
        /\ threads' = [t \in ThreadIds |-> FreshThread]
        /\ disturbed' = FALSE
        /\ pulse_stop_event' = FALSE
        /\ listing' = <<>>
        /\ pulse_active' = FALSE
        /\ pulse_pc' = "loop"
        /\ starter' = "idle"
        /\ UNCHANGED <<caller, next_id, add_args>>

\* between two runs of the program alarms.json is deleted or edited
ReplaceFile(files) ==
    \E f \in files :
        /\ caller = "idle"
        /\ file' = f
        /\ ret' = Call("edit", "", 0, FALSE)
        /\ UNCHANGED <<alarms, triggered_alarm, monitoring_active,
                       monitor_thread, threads, caller, next_id, disturbed,
                       pulse_stop_event, add_args, listing, pulse_active,
                       pulse_pc, starter>>

(***************************************************************************)
(* AlarmManager: start_monitoring and stop_monitoring.                     *)
(***************************************************************************)
\* the thread objects a new AlarmMonitorThread can take
FreeThreads == {t \in ThreadIds : ~is_alive(t)}

\* line 226: a thread is spawned only when none is referenced and alive
must_spawn == IF monitor_thread = 0 THEN TRUE ELSE ~is_alive(monitor_thread)

\* line 233: a thread is referenced and alive
must_join == IF monitor_thread = 0 THEN FALSE ELSE is_alive(monitor_thread)

start_monitoring ==
    /\ caller = "idle"
    /\ IF must_spawn
       THEN /\ FreeThreads # {}
            /\ LET t == CHOOSE u \in FreeThreads : \A w \in FreeThreads : u <= w IN
                 /\ threads' = [threads EXCEPT ![t] = [FreshThread EXCEPT !.pc = "loop"]]
                 /\ monitor_thread' = t
            /\ monitoring_active' = TRUE
       ELSE UNCHANGED <<threads, monitor_thread, monitoring_active>>
    /\ ret' = Call("start", IF must_spawn THEN "spawned" ELSE "", 0, FALSE)
    /\ UNCHANGED <<alarms, file, triggered_alarm, caller, next_id, disturbed,
                   pulse_stop_event, add_args,
                   listing, pulse_active, pulse_pc, starter>>

\* start_monitoring in a second caller, line 226: the test is made; the call
\* returns at once when the referenced thread is alive
StartCheck ==
    /\ starter = "idle"
    /\ starter' = IF must_spawn THEN "spawn" ELSE "idle"
    /\ UNCHANGED <<alarms, file, triggered_alarm, monitoring_active,
                   monitor_thread, threads, caller, ret, next_id, disturbed,
                   pulse_stop_event, add_args, listing, pulse_active, pulse_pc>>

\* start_monitoring in a second caller, lines 227-229: the thread is created,
\* referenced and started after the test passed
StartSpawn ==
    /\ starter = "spawn"
    /\ FreeThreads # {}
    /\ LET t == CHOOSE u \in FreeThreads : \A w \in FreeThreads : u <= w IN
         /\ threads' = [threads EXCEPT ![t] = [FreshThread EXCEPT !.pc = "loop"]]
         /\ monitor_thread' = t
    /\ monitoring_active' = TRUE
    /\ starter' = "idle"
    /\ UNCHANGED <<alarms, file, triggered_alarm, caller, ret, next_id,
                   disturbed, pulse_stop_event, add_args, listing, pulse_active,
                   pulse_pc>>

\* lines 233-235: the stop event is set and the caller starts to join
StopBegin ==
    /\ caller = "idle"
    /\ must_join
    /\ threads' = [threads EXCEPT ![monitor_thread].stop_event = TRUE]
    /\ caller' = "joining"
    /\ UNCHANGED <<alarms, file, triggered_alarm, monitoring_active,
                   monitor_thread, ret, next_id, disturbed, pulse_stop_event,
                   add_args,
                   listing, pulse_active, pulse_pc, starter>>

\* mutant: the monitor is marked stopped only when the thread has ended
StopEnd_TrustsJoin ==
    /\ \/ caller = "joining"
       \/ caller = "idle" /\ ~must_join
    /\ monitoring_active' = IF must_join THEN monitoring_active ELSE FALSE
    /\ pulse_stop_event' = TRUE
    /\ caller' = "idle"
    /\ ret' = Call("stop", IF must_join THEN "timeout" ELSE "", 0, FALSE)
    /\ UNCHANGED <<alarms, file, triggered_alarm, monitor_thread, threads,
                   next_id, disturbed, add_args,
                   listing, pulse_active, pulse_pc, starter>>

\* lines 235-244: join returns, because the thread ended or the timeout
\* expired; with no live thread the call comes here at once
StopEnd ==
    /\ \/ caller = "joining"
       \/ caller = "idle" /\ ~must_join
    /\ monitoring_active' = FALSE
    /\ pulse_stop_event' = TRUE
    /\ caller' = "idle"
    /\ ret' = Call("stop", IF must_join THEN "timeout" ELSE "", 0, FALSE)
    /\ UNCHANGED <<alarms, file, triggered_alarm, monitor_thread, threads,
                   next_id, disturbed, add_args,
                   listing, pulse_active, pulse_pc, starter>>

(***************************************************************************)
(* The program: the consumer thread and the monitor threads interleave.    *)
(***************************************************************************)
\* one step of run() in thread t
ThreadRun(t, snapshots, hours) ==
    \/ ExitLoop(t)
    \/ BeginTick(t, snapshots, hours)
    \/ EvalResource(t)
    \/ Publish(t)
    \/ SetValue(t)
    \/ SetTime(t)
    \/ Notify(t)
    \/ Sleep(t)

ThreadStep(snapshots, hours) ==
    \E t \in ThreadIds : ThreadRun(t, snapshots, hours)

\* the inputs of the complete program, kept few
FewFiles ==
    { FileMissing,
      FileList(<<Rule(101, "cpu", 70, "office"), Rule(102, "logs", 70, "always")>>) }

FewSnapshots == {Usage(0, 0, 0, 0), Usage(90, 90, 90, 90)}

FewArgs ==
    { Args(PyStr("cpu"), PyInt(85), PyNone, "always"),
      Args(PyStr("gpu"), PyStr("cpu"), PyInt(0), "always") }

Next ==
    \/ ThreadStep(FewSnapshots, {10, 22})
    \/ PulseStep
    \/ ListAlarms
    \/ MutateList
    \/ MutateRule({0})
    \/ Restart
    \/ SubmitAdd
    \/ RemoveAlarm({101, 1, 2})
    \/ RemoveClear
    \/ Acknowledge
    \/ start_monitoring
    \/ StartCheck
    \/ StartSpawn
    \/ EnterMode
    \/ LeaveMode
    \/ StopBegin
    \/ StopEnd

Spec == InitFrom(FewFiles, FewArgs) /\ [][Next]_vars

(***************************************************************************)
(* Evaluation: the monitor runs over the rules found at construction; the  *)
(* consumer starts and stops it and acknowledges alarms.                   *)
(***************************************************************************)
NextTick ==
    \/ ThreadStep(Snapshots, SampleHours)
    \/ Acknowledge
    \/ start_monitoring
    \/ StopBegin
    \/ StopEnd

SpecTick == Init /\ [][NextTick]_vars

\* the same with few samples, and every live monitor thread scheduled again
\* and again
NextRaise ==
    \/ ThreadStep(FewSnapshots, {10})
    \/ Acknowledge
    \/ start_monitoring
    \/ StopBegin
    \/ StopEnd

SpecRaiseLive ==
    /\ Init
    /\ [][NextRaise]_vars
    /\ \A t \in ThreadIds : WF_vars(ThreadRun(t, FewSnapshots, {10}))

NextRemove ==
    \/ ThreadStep({Usage(0, 0, 0, 0), Usage(90, 90, 90, 90)}, {10})
    \/ Acknowledge
    \/ RemoveAlarm({101, 102, 1})
    \/ RemoveClear
    \/ start_monitoring
    \/ StopBegin
    \/ StopEnd

SpecRemove == Init /\ [][NextRemove]_vars

(***************************************************************************)
(* Administration: the consumer adds rules with the arguments it entered   *)
(* and removes rules; no monitor runs.                                     *)
(***************************************************************************)
AllArgs ==
    { Args(r, t, n, p) : r \in ResourceArgs, t \in ThresholdArgs, n \in NameArgs,
                         p \in PeriodArgs }

AdminFiles ==
    { FileMissing,
      FileList(<<Rule(101, "cpu", 70, "always"), Rule(102, "logs", 70, "office")>>) }

NextAdmin ==
    \/ SubmitAdd
    \/ RemoveAlarm({101, 1, 2})

SpecAdmin == InitFrom(AdminFiles, AllArgs) /\ [][NextAdmin]_vars

(***************************************************************************)
(* Pulse: the pulse thread runs beside the monitor, which the consumer     *)
(* starts and stops.                                                       *)
(***************************************************************************)
NextPulse ==
    \/ PulseStep
    \/ ThreadStep(FewSnapshots, {10})
    \/ start_monitoring
    \/ StopBegin
    \/ StopEnd

SpecPulse == Init /\ [][NextPulse]_vars

\* the pulse thread is scheduled again and again
SpecPulseLive == SpecPulse /\ WF_vars(PulseStep)

(***************************************************************************)
(* Mixed: the consumer adds and removes rules while the monitor runs.      *)
(***************************************************************************)
MixFiles == { FileList(<<Rule(102, "logs", 70, "always")>>) }

MixArgs == { Args(PyStr("cpu"), PyInt(85), PyNone, "always") }

NextMix ==
    \/ ThreadStep({Usage(90, 90, 90, 90)}, {10})
    \/ SubmitAdd
    \/ RemoveAlarm({102})
    \/ RemoveClear
    \/ start_monitoring
    \/ StopBegin
    \/ StopEnd

SpecMix == InitFrom(MixFiles, MixArgs) /\ [][NextMix]_vars

(***************************************************************************)
(* Console: the consumer starts and stops the monitor and enters and       *)
(* leaves the monitoring mode of the console.                              *)
(***************************************************************************)
NextMode ==
    \/ ThreadStep(FewSnapshots, {10})
    \/ start_monitoring
    \/ StopBegin
    \/ StopEnd
    \/ EnterMode
    \/ LeaveMode

SpecMode == Init /\ [][NextMode]_vars

(***************************************************************************)
(* Two callers: a second thread calls start_monitoring while the consumer  *)
(* starts and stops the monitor.                                           *)
(***************************************************************************)
TwoFiles == { FileList(<<Rule(101, "cpu", 70, "always")>>) }

NextTwo ==
    \/ ThreadStep({Usage(90, 0, 0, 0)}, {10})
    \/ start_monitoring
    \/ StartCheck
    \/ StartSpawn
    \/ StopBegin
    \/ StopEnd

SpecTwo == InitFrom(TwoFiles, {NoArgs}) /\ [][NextTwo]_vars

(***************************************************************************)
(* Periods: a store of one breached cpu rule, with every period tag, an    *)
(* unknown tag or none, is evaluated at every hour of the day.             *)
(***************************************************************************)
AllHours == 0..23

PeriodTags == valid_periods \cup {"weekend", "", NoKey}

ActiveFiles == { FileList(<<Rule(101, "cpu", 70, p)>>) : p \in PeriodTags }

NextActive ==
    \/ ThreadStep({Usage(90, 0, 0, 0)}, AllHours)
    \/ start_monitoring
    \/ StopBegin
    \/ StopEnd

SpecActive == InitFrom(ActiveFiles, {NoArgs}) /\ [][NextActive]_vars

(***************************************************************************)
(* Vocabulary of the properties.                                           *)
(***************************************************************************)
\* the fixed order of the resources and the position of each in it
ResourceOrder == <<"cpu", "ram", "disk", "logs">>

Positions == 1..Len(ResourceOrder)

RulesOf(list) == {list[k] : k \in 1..Len(list)}

\* the value a tick holds for the resource at position k
TickValue(t, k) ==
    LET u == threads[t].usage IN
    CASE k = 1 -> u.cpu
      [] k = 2 -> u.ram
      [] k = 3 -> u.disk
      [] OTHER -> u.logs

\* period p covers hour h
Covers(p, h) ==
    CASE p = "day" -> h \in 6..21
      [] p = "night" -> h \notin 6..21
      [] p = "office" -> h \in 9..17
      [] p = "non-office" -> h \notin 9..17
      [] OTHER -> TRUE

\* the rules of the resource at position k that are breached in the tick of t
\* and active at its hour
Candidates(t, k) ==
    { a \in RulesOf(alarms) :
        /\ a.resource = ResourceOrder[k]
        /\ a.threshold <= TickValue(t, k)
        /\ Covers(a.active_period, threads[t].hour) }

\* the candidates of maximum threshold
Top(t, k) ==
    { a \in Candidates(t, k) : \A b \in Candidates(t, k) : b.threshold <= a.threshold }

\* the tick of t ran to its end and nothing else touched the alarm state
Completed(t) == threads[t].pc = "sleep" /\ ~threads[t].raised /\ ~disturbed

\* the for loop of the tick of t has dealt with position k
Evaluated(t, k) ==
    \/ k < threads[t].idx
    \/ k = threads[t].idx /\ threads[t].pc \in
          {"publish", "set_value", "set_time", "notify", "sleep"}

(***************************************************************************)
(* C1 (as claimed): after a completed tick in which no resource has an     *)
(* active rule with threshold <= its current value, the triggered alarm is *)
(* none, whatever it was before the tick.  run() never resets the          *)
(* triggered alarm, so an alarm of an earlier tick survives.               *)
(***************************************************************************)
C1_NoBreachClears ==
    \A t \in ThreadIds :
        (Completed(t) /\ \A k \in Positions : Candidates(t, k) = {})
            => triggered_alarm = <<>>

(***************************************************************************)
(* C2: when two or more resources have a winning rule in one tick, the     *)
(* triggered alarm after the tick is a winning rule of the resource that   *)
(* comes last in the order cpu, ram, disk, logs, with that resource's      *)
(* value.                                                                  *)
(***************************************************************************)
Breaching(t) == {k \in Positions : Candidates(t, k) # {}}

LastBreaching(t) == CHOOSE k \in Breaching(t) : \A j \in Breaching(t) : j <= k

C2_LastResourceWins ==
    \A t \in ThreadIds :
        (Completed(t) /\ Cardinality(Breaching(t)) >= 2)
            => /\ triggered_alarm # <<>>
               /\ triggered_alarm[1].resource = ResourceOrder[LastBreaching(t)]
               /\ triggered_alarm[1].id \in {a.id : a \in Top(t, LastBreaching(t))}
               /\ triggered_alarm[1].current_value = <<TickValue(t, LastBreaching(t))>>

C2_Witness ==
    \E t \in ThreadIds :
        /\ Completed(t)
        /\ Candidates(t, 1) # {}
        /\ Candidates(t, 4) # {}
        /\ triggered_alarm # <<>>
        /\ triggered_alarm[1].resource = "logs"

(***************************************************************************)
(* C3: the rule that wins a resource in a tick is a rule of maximum        *)
(* threshold among the rules of that resource that are breached and active *)
(* at the hour of the tick; a resource with such a rule always has a       *)
(* winner, so a breached inactive rule neither wins nor keeps a breached   *)
(* active rule from winning.                                               *)
(***************************************************************************)
C3_MaxActiveBreachedWins ==
    \A t \in ThreadIds : \A k \in Positions :
        Evaluated(t, k)
            => /\ (threads[t].winners[k] = 0) = (Candidates(t, k) = {})
               /\ threads[t].winners[k] # 0
                     => threads[t].winners[k] \in {a.id : a \in Top(t, k)}

C3_Witness ==
    \E t \in ThreadIds :
        /\ Evaluated(t, 1)
        /\ TickValue(t, 1) = 90
        /\ threads[t].hour = 22
        /\ \E a \in Candidates(t, 1) : a.threshold = 70
        /\ \E a \in RulesOf(alarms) :
              /\ a.resource = "cpu"
              /\ a.threshold = 85
              /\ ~Covers(a.active_period, 22)
              /\ threads[t].winners[1] # a.id
        /\ threads[t].winners[1] # 0

(***************************************************************************)
(* C4 (as claimed): after a completed tick evaluated at hour h the         *)
(* triggered alarm is never a rule whose period is inactive at h.  With no *)
(* reset in run() (C1) a rule triggered at an hour of its period stays     *)
(* triggered through the ticks of later hours.                             *)
(***************************************************************************)
C4_TriggeredIsActive ==
    \A t \in ThreadIds :
        (Completed(t) /\ triggered_alarm # <<>>)
            => Covers(triggered_alarm[1].active_period, threads[t].hour)

(***************************************************************************)
(* C5 (as claimed): a tick whose sampling call fails leaves the triggered  *)
(* alarm exactly as it was before the tick.  get_system_usage turns the    *)
(* failure into zeros and run() evaluates every resource, logs against the *)
(* log count, so a breached logs rule is triggered in such a tick.         *)
(***************************************************************************)
C5_FailedSampleKeepsTriggered ==
    \A t \in ThreadIds :
        (Completed(t) /\ threads[t].failed) => triggered_alarm = threads[t].before

(***************************************************************************)
(* The store over runs of the program: rules are added and removed, the    *)
(* file is replaced from outside, the program is started again.            *)
(***************************************************************************)
\* a rule as a file written by hand can hold it: no validation was applied
StoreFiles ==
    { FileMissing, FileCorrupt, FileObject, FileScalar,
      FileList(<<>>),
      FileList(<<Rule(101, "cpu", 70, "always"), Rule(102, "logs", 70, "office")>>),
      FileList(<<Rule(101, "cpu", 0, "always"), Rule(102, "gpu", 50, "day")>>) }

StoreArgs ==
    { Args(PyStr("cpu"), PyInt(85), PyStr("n"), "night"),
      Args(PyStr("logs"), PyInt(101), PyNone, "always"),
      Args(PyStr("gpu"), PyStr("cpu"), PyInt(0), "always") }

NextStore ==
    \/ SubmitAdd
    \/ RemoveAlarm({101, 1})
    \/ Restart
    \/ ReplaceFile(StoreFiles)

SpecStore == InitFrom(StoreFiles, StoreArgs) /\ [][NextStore]_vars

(***************************************************************************)
(* Listing: the consumer asks for the rules and mutates what it was given, *)
(* and removes rules; no monitor runs.                                     *)
(***************************************************************************)
NextList ==
    \/ ListAlarms
    \/ MutateList
    \/ MutateRule({0, 50})
    \/ RemoveAlarm({101, 102})

SpecList == Init /\ [][NextList]_vars

(***************************************************************************)
(* Vocabulary of the claims about the consumer's calls.                    *)
(***************************************************************************)
Ids(list) == {list[k].id : k \in 1..Len(list)}

\* no monitor thread moves in the step
ThreadsRest ==
    \A t \in ThreadIds :
        is_alive(t) => [threads'[t] EXCEPT !.held = threads[t].held] = threads[t]

\* the step is a return of remove_alarm, add_alarm, start_monitoring
Returns(op) ==
    /\ caller \in {"idle", "rm_clear"}
    /\ caller' = "idle"
    /\ ret'.op = op
    /\ ThreadsRest

Alive == {t \in ThreadIds : is_alive(t)}

\* the arguments name a resource, a threshold in its range and a period
ValidArgs(a) ==
    /\ a.resource \in {PyStr("cpu"), PyStr("ram"), PyStr("disk"), PyStr("logs")}
    /\ a.threshold.t = "int"
    /\ IF a.resource = PyStr("logs")
       THEN a.threshold.i >= 1
       ELSE a.threshold.i \in 1..100
    /\ a.active_period \in {"always", "day", "night", "office", "non-office"}

(***************************************************************************)
(* C6: when remove_alarm removes the rule whose id the triggered alarm     *)
(* carries, the triggered alarm is none at the moment the call returns.    *)
(***************************************************************************)
C6_RemoveTriggeredClears ==
    [][ ( /\ Returns("remove")
          /\ ret'.status = "True"
          /\ \/ caller = "rm_clear"
             \/ triggered_alarm # <<>> /\ triggered_alarm[1].id = ret'.id )
        => triggered_alarm' = <<>> ]_vars

C6_Witness ==
    /\ caller = "idle"
    /\ ret.op = "remove"
    /\ ret.status = "True"
    /\ ret.cleared
    /\ ret.id \notin Ids(alarms)
    /\ triggered_alarm = <<>>
    /\ Alive # {}

(***************************************************************************)
(* C7: add_alarm with a resource of cpu, ram, disk, logs, a threshold in   *)
(* the resource's range (1..100, or any positive integer for logs) and a   *)
(* valid period succeeds; the id it returns is carried by no rule the      *)
(* store held, and get_alarms then holds exactly one rule with that id,    *)
(* which carries the given resource, threshold and period.                 *)
(***************************************************************************)
C7_ValidAddSucceeds ==
    [][ (Returns("add") /\ ValidArgs(add_args))
        => /\ ret'.status = "ok"
           /\ ret'.id \notin Ids(alarms)
           /\ LET listed == SelectSeq(SortedAlarms(alarms'), LAMBDA a : a.id = ret'.id) IN
                /\ Len(listed) = 1
                /\ PyStr(listed[1].resource) = add_args.resource
                /\ PyInt(listed[1].threshold) = add_args.threshold
                /\ listed[1].active_period = add_args.active_period ]_vars

C7_Witness ==
    /\ ret.op = "add"
    /\ ret.status = "ok"
    /\ add_args = Args(PyStr("logs"), PyInt(101), PyStr("n"), "non-office")
    /\ Len(alarms) = 3
    /\ ret.id \in Ids(alarms)

LegacyOrder(a) ==
    /\ a.resource \notin {PyStr("cpu"), PyStr("ram"), PyStr("disk"), PyStr("logs")}
    /\ a.threshold \in {PyStr("cpu"), PyStr("ram"), PyStr("disk"), PyStr("logs")}

AsRead(a) ==
    IF LegacyOrder(a)
    THEN Args(a.threshold, a.name, a.resource, a.active_period)
    ELSE a

C9_RemoveUnknownId ==
    [][ (Returns("remove") /\ caller = "idle" /\ ret'.id \notin Ids(alarms))
        => /\ ret'.status = "False"
           /\ ~ret'.wrote
           /\ file' = file
           /\ alarms' = alarms
           /\ triggered_alarm' = triggered_alarm ]_vars

C9_Witness ==
    /\ ret.op = "remove"
    /\ ret.status = "False"
    /\ ret.id \notin Ids(alarms)
    /\ alarms # <<>>
    /\ triggered_alarm # <<>>
    /\ file = FileList(alarms)

(***************************************************************************)
(* C10 (as claimed): a start_monitoring that follows a start_monitoring,   *)
(* no stop_monitoring between them, spawns no thread and leaves exactly    *)
(* one monitor thread alive.  After a stop_monitoring whose join timed     *)
(* out the first call spawns nothing (C26); once the old thread has ended  *)
(* the second call spawns a new one.                                       *)
(***************************************************************************)
C10_SecondStartSpawnsNothing ==
    [][ (Returns("start") /\ ret.op = "start")
        => /\ Alive' = Alive
           /\ Cardinality(Alive') = 1 ]_vars

(***************************************************************************)
(* C11: when stop_monitoring returns, monitoring_active is false, also     *)
(* when the join timed out and the monitor thread is still alive.          *)
(***************************************************************************)
\* the step is a return of stop_monitoring
StopReturns ==
    /\ caller \in {"idle", "joining"}
    /\ caller' = "idle"
    /\ ret'.op = "stop"
    /\ ThreadsRest

C11_StopMarksStopped ==
    [][ StopReturns => monitoring_active' = FALSE ]_vars

C11_Witness ==
    /\ caller = "idle"
    /\ ret.op = "stop"
    /\ ret.status = "timeout"
    /\ ~monitoring_active
    /\ monitor_thread # 0
    /\ monitor_thread \in Alive

(***************************************************************************)
(* C12 (as claimed): a tick assigns the triggered alarm only for the last  *)
(* resource that wins in it, so that no reader sees the winner of an       *)
(* earlier resource when a later resource of the order also wins.  run()   *)
(* calls _trigger_alarm inside the for loop, once per winning resource.    *)
(***************************************************************************)
C12_PublishOnlyLastWinner ==
    [][ \A t \in ThreadIds :
            (threads[t].pc = "publish" /\ threads'[t].pc = "set_value")
                => \A j \in Positions :
                       j > threads[t].idx => Candidates(t, j) = {} ]_vars

(***************************************************************************)
(* C13 (as claimed): mutating the list get_alarms returned, or a rule      *)
(* inside it, changes no rule the store holds.  sorted() builds a new      *)
(* list, but of the store's own dicts: an assignment to a rule of the      *)
(* returned list is an assignment to the store's rule.                     *)
(***************************************************************************)
C13_ListSharesNothing ==
    [][ (Returns("del") \/ Returns("set")) => alarms' = alarms ]_vars

(***************************************************************************)
(* C14 (as claimed): every rule of the in-memory list has a resource of    *)
(* cpu, ram, disk, logs and a threshold valid for it, the rules            *)
(* load_alarms read from the file included.  load_alarms checks only that  *)
(* the file holds a list.                                                  *)
(***************************************************************************)
C14_StoreIsValid ==
    \A a \in RulesOf(alarms) :
        /\ a.resource \in {"cpu", "ram", "disk", "logs"}
        /\ IF a.resource = "logs" THEN a.threshold >= 1 ELSE a.threshold \in 1..100

(***************************************************************************)
(* C15: load_alarms never raises to its caller; it returns the empty list  *)
(* when the file is missing, is no JSON, or is JSON but no list; a missing *)
(* file is created holding the empty list (when it can be opened for       *)
(* writing).                                                               *)
(***************************************************************************)
\* the step is a construction of AlarmManager, which calls load_alarms
LoadReturns == caller = "idle" /\ ret'.op = "load"

PulseRunning == pulse_pc # "dead" /\ ~pulse_stop_event

C17_PulseIndependent ==
    [][ (StopReturns \/ Returns("start")) => PulseRunning' = PulseRunning ]_vars

(***************************************************************************)
(* C18: once the stop event of the pulse thread is set, pulse_active       *)
(* becomes false and from then on stays false; after an exception in a     *)
(* pulse cycle pulse_active becomes false.                                 *)
(***************************************************************************)
C18_PulseFlagSettles ==
    /\ [](pulse_stop_event => <>[](~pulse_active))
    /\ [](pulse_pc = "except" => <>(~pulse_active))

C18_Witness ==
    /\ pulse_stop_event
    /\ pulse_active
    /\ pulse_pc = "active"

(***************************************************************************)
(* C19: an exception raised inside a tick is caught by the except of run() *)
(* and does not end the loop: after a tick that raised, the thread starts  *)
(* another tick unless its stop event has been set.                        *)
(***************************************************************************)
\* the next statement of the tick of t raises: line 340 on None
AboutToRaise(t) == threads[t].pc = "set_value" /\ triggered_alarm = <<>>

\* t is at the first resource of a tick
TickStarted(t) == threads[t].pc = "eval" /\ threads[t].idx = 1

C19_LoopSurvivesFailedTick ==
    \A t \in ThreadIds :
        /\ [](AboutToRaise(t) => <>(threads[t].raised /\ threads[t].pc = "sleep"))
        /\ []((threads[t].raised /\ threads[t].pc = "sleep")
                => <>(TickStarted(t) \/ threads[t].stop_event))

C19_Witness ==
    \E t \in ThreadIds :
        /\ threads[t].raised
        /\ threads[t].pc = "sleep"
        /\ ~threads[t].stop_event
        /\ ret.op = "ack"

(***************************************************************************)
(* C20 (as claimed): when _trigger_alarm has established a triggered alarm *)
(* and reaches its notification block, send_alert_email is called if and   *)
(* only if the rule's resource is logs or ALERT_ON_ANY_ALARM is set; the   *)
(* block never raises into the tick, which goes on with the next resource, *)
(* and it leaves the triggered alarm as it is.  The body of the message is *)
(* built from self.triggered_alarm (line 349): after an acknowledgement    *)
(* the AttributeError is caught at line 353 and no message is sent.        *)
(***************************************************************************)
\* the notification block of t's _trigger_alarm call is executed in this step
Notifies(t) == threads[t].pc = "notify" /\ threads'[t].pc # "notify"

\* send_alert_email was called in the notification block t has just left
Invoked(th) == th.mail \in MailOutcomes

C20_NotifyIffLogsOrAny ==
    [][ \A t \in ThreadIds :
          Notifies(t) =>
             /\ Invoked(threads'[t]) <=>
                   (threads[t].alarm[1].resource = "logs" \/ threads'[t].alert_any)
             /\ ~threads'[t].raised
             /\ threads'[t] = [NextResource(threads[t]) EXCEPT
                                  !.alert_any = threads'[t].alert_any,
                                  !.mail = threads'[t].mail]
             /\ triggered_alarm' = triggered_alarm ]_vars

(***************************************************************************)
(* C21 (as claimed): the rule a tick establishes last (none when it        *)
(* establishes none), or the triggered alarm at the end of the tick, is    *)
(* what the evaluation of the tick's sample gives for one rule list the    *)
(* store held at some instant of the tick.  run() calls                    *)
(* get_alarms once per resource (line 99), so cpu and logs can be          *)
(* evaluated against different rule lists.                                 *)
(***************************************************************************)
\* the rules of list S the sample of t's tick breaches at position k, active
CandidatesIn(S, t, k) ==
    { a \in RulesOf(S) :
        /\ a.resource = ResourceOrder[k]
        /\ a.threshold <= TickValue(t, k)
        /\ Covers(a.active_period, threads[t].hour) }

\* the ids the evaluation of list S with the sample of t may end on: 0 is none
EvaluatorResult(S, t) ==
    LET breaching == {k \in Positions : CandidatesIn(S, t, k) # {}}
        last == CHOOSE k \in breaching : \A j \in breaching : j <= k
    IN  IF breaching = {} THEN {0}
        ELSE { a.id : a \in { b \in CandidatesIn(S, t, last) :
                 \A c \in CandidatesIn(S, t, last) : c.threshold <= b.threshold } }

\* the id of the rule t's tick handed to _trigger_alarm last: 0 is none
Established(t) ==
    LET won == {k \in Positions : threads[t].winners[k] # 0}
    IN  IF won = {} THEN 0
        ELSE threads[t].winners[CHOOSE k \in won : \A j \in won : j <= k]

\* the id the triggered alarm carries: 0 is none
TriggeredId == IF triggered_alarm = <<>> THEN 0 ELSE triggered_alarm[1].id

C21_OneSnapshotPerTick ==
    \A t \in ThreadIds :
        (threads[t].pc = "sleep" /\ ~threads[t].raised)
            => \E S \in threads[t].held :
                  \/ Established(t) \in EvaluatorResult(S, t)
                  \/ TriggeredId \in EvaluatorResult(S, t)

(***************************************************************************)
(* C22 (as claimed): outside the critical section of remove_alarm, a       *)
(* triggered alarm carries the id of a rule the store holds.  A tick that  *)
(* has picked a rule at line 110 publishes it at line 339 whether or not   *)
(* remove_alarm removed it in between.                                     *)
(***************************************************************************)
C22_TriggeredIsStored ==
    (caller # "rm_clear" /\ triggered_alarm # <<>>)
        => triggered_alarm[1].id \in Ids(alarms)

(***************************************************************************)
(* C23 (as claimed): in every state, the value get_triggered_alarm returns *)
(* is none or carries current_value and triggered_at.  _trigger_alarm      *)
(* assigns the bare copy of the rule at line 339 and fills in the two      *)
(* fields at lines 340 and 343.                                            *)
(***************************************************************************)
\* line 319: the call returns the reference self.triggered_alarm holds
get_triggered_alarm == triggered_alarm

C23_PublishedComplete ==
    get_triggered_alarm # <<>>
        => /\ get_triggered_alarm[1].current_value # <<>>
           /\ get_triggered_alarm[1].triggered_at # <<>>

(***************************************************************************)
(* C24 (as claimed): when remove_alarm(x) sets the triggered alarm to      *)
(* none, the value it overwrites carries the id x.  The test of line 311   *)
(* and the assignment of line 312 are two steps, and _trigger_alarm        *)
(* assigns without the lock.                                               *)
(***************************************************************************)
\* the step is the assignment of line 312 in a call remove_alarm(ret.id)
RemoveClears ==
    /\ caller = "rm_clear"
    /\ caller' = "idle"
    /\ triggered_alarm # <<>>
    /\ triggered_alarm' = <<>>

C24_RemoveClearsOnlyItsRule ==
    [][ RemoveClears => triggered_alarm[1].id = ret.id ]_vars

(***************************************************************************)
(* C25 (as claimed): no tick takes the error path of run() (lines          *)
(* 117-120); the consumer's clearing of the triggered alarm is the only    *)
(* interference the ticks of this specification meet.  A clear between     *)
(* lines 339 and 340 makes line 340 subscript None: the TypeError ends the *)
(* for loop and the resources after the current one are not evaluated.     *)
(***************************************************************************)
C25_ClearNeverRaises ==
    \A t \in ThreadIds : ~threads[t].raised

(***************************************************************************)
(* C26 (as claimed): at every return of start_monitoring the monitor is    *)
(* running: monitoring_active is true and the thread the manager refers to *)
(* is alive with its stop event not set.  start_monitoring does nothing    *)
(* when the referenced thread is alive (line 226): neither after a stop    *)
(* whose join timed out nor after the monitoring mode lowered the flag.    *)
(***************************************************************************)
Running ==
    /\ monitoring_active
    /\ monitor_thread # 0
    /\ is_alive(monitor_thread)
    /\ ~threads[monitor_thread].stop_event

C26_StartMeansRunning ==
    [][ Returns("start") => Running' ]_vars

(***************************************************************************)
(* C27 (as claimed): at most one monitor thread is alive at any moment,    *)
(* also with two callers of start_monitoring.  The test of line 226 and    *)
(* the spawn of lines 227-228 are not atomic: both callers can pass the    *)
(* test before either has spawned.                                         *)
(***************************************************************************)
C27_OneMonitorAlive == Cardinality(Alive) <= 1

(***************************************************************************)
(* C28: an acknowledgement does not outlast the breach.  A tick that       *)
(* starts after the acknowledgement with no alarm triggered, and runs to   *)
(* its end with no further call of the consumer, ends with a triggered     *)
(* alarm exactly when a resource has an active breached rule in the store; *)
(* the alarm is then a rule of maximum threshold of the last such          *)
(* resource.                                                               *)
(***************************************************************************)
\* the tick of t started after the consumer's acknowledgement and completed
CompletedAfterAck(t) ==
    /\ Completed(t)
    /\ ret.op = "ack"
    /\ threads[t].before = <<>>

C28_AckNotDurable ==
    \A t \in ThreadIds :
        CompletedAfterAck(t)
            => IF Breaching(t) = {}
               THEN triggered_alarm = <<>>
               ELSE /\ triggered_alarm # <<>>
                    /\ triggered_alarm[1].id \in {a.id : a \in Top(t, LastBreaching(t))}

C28_Witness ==
    \E t \in ThreadIds :
        /\ CompletedAfterAck(t)
        /\ Breaching(t) # {}
        /\ triggered_alarm # <<>>

(***************************************************************************)
(* C29 (as claimed): when add_alarm returns an id or remove_alarm returns  *)
(* True, the file holds exactly the rule list in memory.  save_alarms      *)
(* catches every exception of the write (lines 58-60) and returns nothing, *)
(* so the callers report success after a failed save.                      *)
(***************************************************************************)
\* the step is a return of add_alarm or remove_alarm that reports success
ReportsSuccess ==
    \/ Returns("add") /\ ret'.status = "ok"
    \/ Returns("remove") /\ ret'.status = "True"

C29_SuccessMeansPersisted ==
    [][ ReportsSuccess => file' = FileList(alarms') ]_vars

(***************************************************************************)
(* C30: _is_alarm_active agrees with the table of the periods at every     *)
(* hour 0..23: always is active; day from 6 to 21; night before 6 and      *)
(* after 21, the complement of day; office from 9 to 17; non-office the    *)
(* complement of office; an unknown tag and a missing tag are active.  A   *)
(* breached rule alone in the store wins its resource in a tick exactly    *)
(* when the table has it active at the hour of the tick.                   *)
(***************************************************************************)
ActiveTable(tag, hour) ==
    IF tag = "always" THEN TRUE
    ELSE IF tag = "day" THEN hour \in 6..21
    ELSE IF tag = "night" THEN hour \in (0..5) \cup (22..23)
    ELSE IF tag = "office" THEN hour \in 9..17
    ELSE IF tag = "non-office" THEN hour \in (0..8) \cup (18..23)
    ELSE TRUE

C30_ActiveTable ==
    /\ \A t \in ThreadIds :
          ( /\ Evaluated(t, 1)
            /\ Len(alarms) = 1
            /\ alarms[1].resource = "cpu"
            /\ alarms[1].threshold <= TickValue(t, 1) )
          => ( (threads[t].winners[1] = alarms[1].id)
                 <=> ActiveTable(alarms[1].active_period, threads[t].hour) )
    /\ \A h \in AllHours :
          /\ is_alarm_active([active_period |-> "night"], h)
                = ~is_alarm_active([active_period |-> "day"], h)
          /\ is_alarm_active([active_period |-> "non-office"], h)
                = ~is_alarm_active([active_period |-> "office"], h)

C30_Witness ==
    \E t \in ThreadIds :
        /\ Evaluated(t, 1)
        /\ Len(alarms) = 1
        /\ alarms[1].active_period = "night"
        /\ threads[t].hour = 21
        /\ threads[t].winners[1] = 0

====
